---- MODULE Spec2Model ----
(***************************************************************************)
(* Model of mcp-server/src/server.py: the session / cart / order tools of  *)
(* the "restaurant" FastMCP server.                                        *)
(*                                                                         *)
(* Every tool is an `async def` without a single `await` in its body, so   *)
(* the asyncio event loop runs each call to completion before it starts    *)
(* another one: one action per tool call.                                  *)
(*                                                                         *)
(* A Python list is an object that several names may reference.  The model *)
(* keeps the lists in a heap: `lists` maps a list identity to the lines it *)
(* holds, and session["cart"] and order["items"] are references into that  *)
(* heap, exactly as in the program, so that a cart and an order sharing    *)
(* one list is something the model can exhibit.  The line dicts are kept   *)
(* by value inside their list: a dict is referenced by one list only,      *)
(* except in remove_from_cart, whose new list shares its dicts with the    *)
(* list it replaces; nothing else references that list (NoSharedList), so  *)
(* it is freed when the tool returns and the sharing ends with the call.   *)
(*                                                                         *)
(* Prices are integers (cents); binary floating point is not modelled.     *)
(* customer_info, payment_info.method and transaction_id are opaque values *)
(* no tool ever reads back; they are left out of the order record.         *)
(***************************************************************************)
EXTENDS Integers, Sequences, FiniteSets, TLC

VARIABLES ACTIVE_SESSIONS, ORDERS, lists, now, horizon, last

vars == <<ACTIVE_SESSIONS, ORDERS, lists, now, horizon, last>>

----------------------------------------------------------------------------
(* Bounds *)

\* number of distinct values of the 8 hex digits kept for an order id
NumPrefix == 2
\* sessions that create_cart may create
MaxSessions == 2
\* cart lines the heap can hold at one time
MaxLines == 2
\* quantity arguments range over -1 .. MaxQty
MaxQty == 1
\* a line's quantity is kept within -1 .. MaxLineQty
MaxLineQty == 2
\* last value of the clock
MaxTime == 1

----------------------------------------------------------------------------
(* Data *)

\* the menu loaded from menu_items.json: id, name and price of each item
MENU_ITEMS ==
    << [id |-> "burger-01", name |-> "Burger", price |-> 850],
       [id |-> "salad-01",  name |-> "Salad",  price |-> 400] >>

\* item_id arguments: the menu's ids and one id that is not in the menu
ItemIds == {MENU_ITEMS[i].id : i \in 1..Len(MENU_ITEMS)} \cup {"nonexistent"}

Quantities == {q - 1 : q \in 0..(MaxQty + 1)}

\* str(uuid4()): a session id is a whole uuid, and uuid4() returns a value it
\* has not returned before; the ids are opaque, and create_cart takes the
\* first one not yet returned.  One id more than create_cart can use, so
\* that there always is a session_id argument that names no session.
SessionIds == 1..(MaxSessions + 1)

\* f"ORD-{uuid4().hex[:8].upper()}": an order id keeps 8 hex digits of a uuid;
\* distinct uuids share prefixes, so the prefix of a new uuid is any value,
\* one already in use included.
OrderIds == 1..NumPrefix

\* Identities of list objects.  A list is named after the first place that
\* references it (a session, then an order); 0 names the list a tool has
\* just created, until the tool returns.  Identities are addresses, which
\* no tool reads.
SessionRoot(session_id) == session_id
OrderRoot(order_id) == MaxSessions + 1 + order_id
ListIds == 1..(MaxSessions + 1 + NumPrefix)
Fresh == 0

Min(S) == CHOOSE x \in S : \A y \in S : x <= y

----------------------------------------------------------------------------
(* Heap *)

\* the list objects some session or order references
LiveLists(sessions, orders) ==
    {sessions[s].cart : s \in DOMAIN sessions} \cup
    {orders[o].items : o \in DOMAIN orders}

\* the places that reference the list object l
Roots(sessions, orders, l) ==
    {SessionRoot(s) : s \in {x \in DOMAIN sessions : sessions[x].cart = l}} \cup
    {OrderRoot(o) : o \in {x \in DOMAIN orders : orders[x].items = l}}

\* The stores and the heap once a tool has returned: a list nothing
\* references is freed (reference counting) and the lists left are named as
\* said above.
Normalize(sessions, orders, ls) ==
    LET live   == LiveLists(sessions, orders)
        nameOf == [l \in live |-> Min(Roots(sessions, orders, l))]
        names  == {nameOf[l] : l \in live}
        oldOf  == [n \in names |-> CHOOSE l \in live : nameOf[l] = n]
    IN  [sessions |-> [s \in DOMAIN sessions |->
                          [sessions[s] EXCEPT !.cart = nameOf[@]]],
         orders   |-> [o \in DOMAIN orders |->
                          [orders[o] EXCEPT !.items = nameOf[@]]],
         lists    |-> [n \in ListIds \cup {Fresh} |->
                          IF n \in names THEN ls[oldOf[n]] ELSE <<>>]]

\* number of cart lines in the lists that are referenced
RECURSIVE HeapLines(_, _)
HeapLines(ls, live) ==
    IF live = {} THEN 0
    ELSE LET l == CHOOSE x \in live : TRUE
         IN  Len(ls[l]) + HeapLines(ls, live \ {l})

\* a sum that counts every line once, whatever its quantity
RECURSIVE SumLines_IgnoresQuantity(_)
SumLines_IgnoresQuantity(c) ==
    IF c = <<>> THEN 0
    ELSE c[1].price + SumLines_IgnoresQuantity(Tail(c))

\* sum(i["price"] * i["quantity"] for i in cart)
RECURSIVE SumLines(_)
SumLines(c) ==
    IF c = <<>> THEN 0
    ELSE c[1].price * c[1].quantity + SumLines(Tail(c))

\* an order as a caller receives it: items is the content of the list
OrderValue(ls, o) == [o EXCEPT !.items = ls[@]]

----------------------------------------------------------------------------
(* Initial state: both stores empty.  datetime.now() returns a value in    *)
(* now..horizon.  No tool reads a timestamp, so the calls of Spec all see  *)
(* one clock reading; SpecClock lets the clock advance.                    *)

InitStores ==
    /\ ACTIVE_SESSIONS = <<>>
    /\ ORDERS = <<>>
    /\ lists = [l \in ListIds \cup {Fresh} |-> <<>>]
    /\ now = 0
    /\ last = [op |-> "init"]

Init == InitStores /\ horizon = 0

InitClock == InitStores /\ horizon = MaxTime

----------------------------------------------------------------------------
(* Tools *)

\* a create_cart whose identifier is the same at every call
create_cart_ReusesId ==
    /\ Cardinality(DOMAIN ACTIVE_SESSIONS) < MaxSessions
    /\ \E t \in now..horizon :
         LET session_id == Min(SessionIds)
             sessions == [s \in DOMAIN ACTIVE_SESSIONS \cup {session_id} |->
                            IF s = session_id
                            THEN [cart |-> Fresh, created_at |-> t,
                                  last_active |-> t]
                            ELSE ACTIVE_SESSIONS[s]]
             heap     == Normalize(sessions, ORDERS, [lists EXCEPT ![Fresh] = <<>>])
         IN  /\ ACTIVE_SESSIONS' = heap.sessions
             /\ ORDERS' = heap.orders
             /\ lists' = heap.lists
             /\ now' = t
             /\ last' = [op |-> "create_cart",
                         result |-> [session_id |-> session_id, cart |-> <<>>]]
    /\ UNCHANGED horizon

create_cart ==
    /\ Cardinality(DOMAIN ACTIVE_SESSIONS) < MaxSessions
    /\ \E t \in now..horizon :
         LET session_id == Min(SessionIds \ DOMAIN ACTIVE_SESSIONS)
             sessions == (session_id :> [cart |-> Fresh, created_at |-> t,
                                         last_active |-> t]) @@ ACTIVE_SESSIONS
             heap     == Normalize(sessions, ORDERS, [lists EXCEPT ![Fresh] = <<>>])
         IN  /\ ACTIVE_SESSIONS' = heap.sessions
             /\ ORDERS' = heap.orders
             /\ lists' = heap.lists
             /\ now' = t
             /\ last' = [op |-> "create_cart",
                         result |-> [session_id |-> session_id, cart |-> <<>>]]
    /\ UNCHANGED horizon

\* a lookup that falls back on the first item of the menu
FindItem_DefaultsToFirst(item_id) ==
    LET hits == {i \in 1..Len(MENU_ITEMS) : MENU_ITEMS[i].id = item_id}
    IN  IF hits = {} THEN 1 ELSE Min(hits)

\* next((i for i in MENU_ITEMS if i["id"] == item_id), None): the index of
\* the first menu item with that id, 0 for None
FindItem(item_id) ==
    LET hits == {i \in 1..Len(MENU_ITEMS) : MENU_ITEMS[i].id = item_id}
    IN  IF hits = {} THEN 0 ELSE Min(hits)

\* the for loop of add_to_cart: the position of the first line of the cart
\* with that item_id, 0 when the loop ends without a break
FindLine(cart, item_id) ==
    LET hits == {i \in 1..Len(cart) : cart[i].item_id = item_id}
    IN  IF hits = {} THEN 0 ELSE Min(hits)

\* the dict of a new cart line
NewLine(item_id, item, quantity) ==
    [item_id |-> item_id, name |-> item.name, price |-> item.price,
     quantity |-> quantity]

\* an add_to_cart that writes the quantity over the one the line holds
CartAdd_Overwrites(cart, item_id, item, quantity) ==
    LET i == FindLine(cart, item_id)
    IN  IF i # 0
        THEN [cart EXCEPT ![i].quantity = quantity]
        ELSE Append(cart, NewLine(item_id, item, quantity))

\* add_to_cart without the search for an existing line
CartAdd_AlwaysAppends(cart, item_id, item, quantity) ==
    Append(cart, NewLine(item_id, item, quantity))

\* the content of the cart list after the for/else of add_to_cart
CartAdd(cart, item_id, item, quantity) ==
    LET i == FindLine(cart, item_id)
    IN  IF i # 0
        THEN [cart EXCEPT ![i].quantity = @ + quantity]
        ELSE Append(cart, NewLine(item_id, item, quantity))

add_to_cart(session_id, item_id, quantity) ==
    LET args == [session_id |-> session_id, item_id |-> item_id,
                 quantity |-> quantity]
    IN
    /\ IF session_id \notin DOMAIN ACTIVE_SESSIONS
       THEN /\ last' = [op |-> "add_to_cart", args |-> args,
                        result |-> [error |-> "Invalid session ID"]]
            /\ UNCHANGED <<ACTIVE_SESSIONS, ORDERS, lists, now>>
       ELSE IF FindItem(item_id) = 0
       THEN /\ last' = [op |-> "add_to_cart", args |-> args,
                        result |-> [error |-> "Item not found"]]
            /\ UNCHANGED <<ACTIVE_SESSIONS, ORDERS, lists, now>>
       ELSE LET item  == MENU_ITEMS[FindItem(item_id)]
                cart  == ACTIVE_SESSIONS[session_id].cart
                added == CartAdd(lists[cart], item_id, item, quantity)
            IN  \* bounds of the model: room for a new line, quantities in range
                /\ Len(added) > Len(lists[cart]) =>
                     HeapLines(lists, LiveLists(ACTIVE_SESSIONS, ORDERS)) < MaxLines
                /\ \A i \in 1..Len(added) :
                     added[i].quantity >= 0 - 1 /\ added[i].quantity <= MaxLineQty
                /\ \E t \in now..horizon :
                     /\ lists' = [lists EXCEPT ![cart] = added]
                     /\ ACTIVE_SESSIONS' =
                           [ACTIVE_SESSIONS EXCEPT ![session_id].last_active = t]
                     /\ now' = t
                     /\ last' = [op |-> "add_to_cart", args |-> args,
                                 result |-> [cart |-> added,
                                             total |-> SumLines(added)]]
                /\ UNCHANGED ORDERS
    /\ UNCHANGED horizon

\* a removal that takes one unit off the line and drops it at quantity 1
WithoutItem_OneUnit(cart, item_id) ==
    LET Keep(line) == line.item_id # item_id \/ line.quantity > 1
        kept == SelectSeq(cart, Keep)
    IN  [i \in 1..Len(kept) |->
           IF kept[i].item_id = item_id
           THEN [kept[i] EXCEPT !.quantity = @ - 1]
           ELSE kept[i]]

\* [i for i in cart if i["item_id"] != item_id]
WithoutItem(cart, item_id) ==
    LET Keep(line) == line.item_id # item_id
    IN  SelectSeq(cart, Keep)

remove_from_cart(session_id, item_id) ==
    LET args == [session_id |-> session_id, item_id |-> item_id]
    IN
    /\ IF session_id \notin DOMAIN ACTIVE_SESSIONS
       THEN /\ last' = [op |-> "remove_from_cart", args |-> args,
                        result |-> [error |-> "Invalid session ID"]]
            /\ UNCHANGED <<ACTIVE_SESSIONS, ORDERS, lists, now>>
       ELSE \E t \in now..horizon :
              LET cart     == ACTIVE_SESSIONS[session_id].cart
                  updated  == WithoutItem(lists[cart], item_id)
                  sessions == [ACTIVE_SESSIONS EXCEPT
                                 ![session_id].cart = Fresh,
                                 ![session_id].last_active = t]
                  heap     == Normalize(sessions, ORDERS,
                                        [lists EXCEPT ![Fresh] = updated])
              IN  /\ ACTIVE_SESSIONS' = heap.sessions
                  /\ ORDERS' = heap.orders
                  /\ lists' = heap.lists
                  /\ now' = t
                  /\ last' = [op |-> "remove_from_cart", args |-> args,
                              result |-> [cart |-> updated,
                                          total |-> SumLines(updated)]]
    /\ UNCHANGED horizon

\* a get_cart that sets the last_active of the session it reads
get_cart_Touches(session_id) ==
    LET args == [session_id |-> session_id]
    IN
    /\ IF session_id \notin DOMAIN ACTIVE_SESSIONS
       THEN /\ last' = [op |-> "get_cart", args |-> args,
                        result |-> [error |-> "Invalid session ID"]]
            /\ UNCHANGED <<ACTIVE_SESSIONS, now>>
       ELSE \E t \in now..horizon :
              LET cart == lists[ACTIVE_SESSIONS[session_id].cart]
              IN  /\ ACTIVE_SESSIONS' =
                        [ACTIVE_SESSIONS EXCEPT ![session_id].last_active = t]
                  /\ now' = t
                  /\ last' = [op |-> "get_cart", args |-> args,
                              result |-> [cart |-> cart, total |-> SumLines(cart)]]
    /\ UNCHANGED <<ORDERS, lists, horizon>>

\* a get_cart that answers with an empty cart for a session it does not know
get_cart_DefaultCart(session_id) ==
    LET args == [session_id |-> session_id]
        cart == IF session_id \in DOMAIN ACTIVE_SESSIONS
                THEN lists[ACTIVE_SESSIONS[session_id].cart] ELSE <<>>
    IN
    /\ last' = [op |-> "get_cart", args |-> args,
                result |-> [cart |-> cart, total |-> SumLines(cart)]]
    /\ UNCHANGED <<ACTIVE_SESSIONS, ORDERS, lists, now, horizon>>

get_cart(session_id) ==
    LET args == [session_id |-> session_id]
    IN
    /\ IF session_id \notin DOMAIN ACTIVE_SESSIONS
       THEN last' = [op |-> "get_cart", args |-> args,
                     result |-> [error |-> "Invalid session ID"]]
       ELSE LET cart == lists[ACTIVE_SESSIONS[session_id].cart]
            IN  last' = [op |-> "get_cart", args |-> args,
                         result |-> [cart |-> cart, total |-> SumLines(cart)]]
    /\ UNCHANGED <<ACTIVE_SESSIONS, ORDERS, lists, now, horizon>>

\* a checkout that does not look at the cart
NotCart_Never(cart) == FALSE

\* `not cart`: an empty list is false
NotCart(cart) == cart = <<>>

\* an order whose total is the amount of its first line only
NewOrder_TotalOfFirstLine(order_id, cart, ls, order_time) ==
    [order_id |-> order_id, items |-> cart,
     total |-> ls[cart][1].price * ls[cart][1].quantity,
     status |-> "confirmed", created_at |-> order_time,
     payment_status |-> "approved"]

\* the order dict checkout builds; cart is the list the session references
NewOrder(order_id, cart, ls, order_time) ==
    [order_id |-> order_id, items |-> cart, total |-> SumLines(ls[cart]),
     status |-> "confirmed", created_at |-> order_time,
     payment_status |-> "approved"]

\* a checkout whose order never reaches the order map
StoreOrder_Lost(orders, order) == orders

\* ORDERS[order_id] = order
StoreOrder(orders, order) ==
    (order.order_id :> order) @@ orders

\* a checkout that ends the session it served
ClearCart_DropsSession(sessions, session_id, nl, t) ==
    [s \in DOMAIN sessions \ {session_id} |-> sessions[s]]

\* a checkout that forgets session["last_active"] = ...
ClearCart_NoTouch(sessions, session_id, nl, t) ==
    [sessions EXCEPT ![session_id].cart = nl]

\* a checkout that forgets session["cart"] = []
ClearCart_KeepsCart(sessions, session_id, nl, t) ==
    [sessions EXCEPT ![session_id].last_active = t]

\* session["cart"] = []; session["last_active"] = datetime.now().isoformat()
\* nl is the new list
ClearCart(sessions, session_id, nl, t) ==
    [sessions EXCEPT ![session_id].cart = nl, ![session_id].last_active = t]

checkout(session_id) ==
    LET args == [session_id |-> session_id]
    IN
    /\ IF session_id \notin DOMAIN ACTIVE_SESSIONS
       THEN /\ last' = [op |-> "checkout", args |-> args,
                        result |-> [error |-> "Invalid session ID"]]
            /\ UNCHANGED <<ACTIVE_SESSIONS, ORDERS, lists, now>>
       ELSE IF NotCart(lists[ACTIVE_SESSIONS[session_id].cart])
       THEN /\ last' = [op |-> "checkout", args |-> args,
                        result |-> [error |-> "Cannot checkout with empty cart"]]
            /\ UNCHANGED <<ACTIVE_SESSIONS, ORDERS, lists, now>>
       ELSE \E order_id \in OrderIds, order_time \in now..horizon :
            \E t \in order_time..horizon :
              LET cart     == ACTIVE_SESSIONS[session_id].cart
                  order    == NewOrder(order_id, cart, lists, order_time)
                  orders   == StoreOrder(ORDERS, order)
                  sessions == ClearCart(ACTIVE_SESSIONS, session_id, Fresh, t)
                  heap     == Normalize(sessions, orders,
                                        [lists EXCEPT ![Fresh] = <<>>])
              IN  /\ ORDERS' = heap.orders
                  /\ ACTIVE_SESSIONS' = heap.sessions
                  /\ lists' = heap.lists
                  /\ now' = t
                  /\ last' = [op |-> "checkout", args |-> args,
                              result |-> [order |-> OrderValue(lists, order),
                                          success |-> TRUE]]
    /\ UNCHANGED horizon

get_order_status(order_id) ==
    /\ IF order_id \notin DOMAIN ORDERS
       THEN last' = [op |-> "get_order_status", args |-> [order_id |-> order_id],
                     result |-> [error |-> "Order not found"]]
       ELSE last' = [op |-> "get_order_status", args |-> [order_id |-> order_id],
                     result |-> [order |-> OrderValue(lists, ORDERS[order_id])]]
    /\ UNCHANGED <<ACTIVE_SESSIONS, ORDERS, lists, now, horizon>>

\* list(ORDERS.values()); the order of the values is not modelled
list_orders ==
    /\ last' = [op |-> "list_orders",
                result |-> {OrderValue(lists, ORDERS[o]) : o \in DOMAIN ORDERS}]
    /\ UNCHANGED <<ACTIVE_SESSIONS, ORDERS, lists, now, horizon>>

----------------------------------------------------------------------------

Next ==
    \/ create_cart
    \/ \E session_id \in SessionIds, item_id \in ItemIds, quantity \in Quantities :
         add_to_cart(session_id, item_id, quantity)
    \/ \E session_id \in SessionIds, item_id \in ItemIds :
         remove_from_cart(session_id, item_id)
    \/ \E session_id \in SessionIds : get_cart(session_id)
    \/ \E session_id \in SessionIds : checkout(session_id)
    \/ \E order_id \in OrderIds : get_order_status(order_id)
    \/ list_orders

Spec == Init /\ [][Next]_vars

\* The same tools under an advancing clock, with one item and one quantity.
NextClock ==
    \/ create_cart
    \/ \E session_id \in SessionIds : add_to_cart(session_id, MENU_ITEMS[1].id, 1)
    \/ \E session_id \in SessionIds : remove_from_cart(session_id, MENU_ITEMS[1].id)
    \/ \E session_id \in SessionIds : get_cart(session_id)
    \/ \E session_id \in SessionIds : checkout(session_id)
    \/ \E order_id \in OrderIds : get_order_status(order_id)
    \/ list_orders

SpecClock == InitClock /\ [][NextClock]_vars

----------------------------------------------------------------------------
(* Properties *)

\* the lines of a session's cart
Cart(session_id) == lists[ACTIVE_SESSIONS[session_id].cart]

\* the items of a stored order
Items(order_id) == lists[ORDERS[order_id].items]

\* the same after the step
CartAfter(session_id) == lists'[ACTIVE_SESSIONS'[session_id].cart]

ItemsAfter(order_id) == lists'[ORDERS'[order_id].items]

\* a tool result of the form {"error": ...}
IsError(result) == "error" \in DOMAIN result

\* the ids of the menu
MenuIds == {MENU_ITEMS[i].id : i \in 1..Len(MENU_ITEMS)}

\* sum of price * quantity over the first n lines of c, counted from the
\* last line down; the properties use it, the tools use SumLines
RECURSIVE TotalOf(_, _)
TotalOf(c, n) ==
    IF n = 0 THEN 0 ELSE TotalOf(c, n - 1) + c[n].price * c[n].quantity

\* no list object is referenced from two places
NoSharedList ==
    \A l \in LiveLists(ACTIVE_SESSIONS, ORDERS) :
        Cardinality(Roots(ACTIVE_SESSIONS, ORDERS, l)) = 1

\* C1: a successful checkout of a session with a non-empty cart leaves the
\* session's cart empty and stores one order, whose items are the lines the
\* cart held just before and whose total is the sum of price * quantity over
\* them, every other order staying as it was; a get_cart on that session
\* right after a successful checkout returns an empty cart and total 0.
C1_CheckoutMovesCartToOrder ==
    [][ /\ ( /\ last'.op = "checkout"
             /\ last'.args.session_id \in DOMAIN ACTIVE_SESSIONS
             /\ Cart(last'.args.session_id) # <<>>
             /\ ~IsError(last'.result) )
          => LET s   == last'.args.session_id
                 pre == Cart(s)
                 o   == last'.result.order.order_id
             IN  /\ CartAfter(s) = <<>>
                 /\ DOMAIN ORDERS' = DOMAIN ORDERS \cup {o}
                 /\ ItemsAfter(o) = pre
                 /\ ORDERS'[o].total = TotalOf(pre, Len(pre))
                 /\ last'.result.order.items = pre
                 /\ last'.result.order.total = TotalOf(pre, Len(pre))
                 /\ \A p \in DOMAIN ORDERS \ {o} :
                      /\ ItemsAfter(p) = Items(p)
                      /\ [ORDERS'[p] EXCEPT !.items = 0] = [ORDERS[p] EXCEPT !.items = 0]
        /\ ( /\ last.op = "checkout"
             /\ ~IsError(last.result)
             /\ last'.op = "get_cart"
             /\ last'.args.session_id = last.args.session_id )
          => last'.result = [cart |-> <<>>, total |-> 0]
      ]_vars

\* C1 witness: a checkout of a two-line cart has just succeeded
C1_Witness ==
    /\ last.op = "checkout"
    /\ ~IsError(last.result)
    /\ Len(last.result.order.items) = 2
    /\ Cart(last.args.session_id) = <<>>

\* C2 (as claimed): every stored order keeps its items and its total in
\* every later step, whatever the tool and the session.
C2_OrderNeverChanges ==
    [][ \A o \in DOMAIN ORDERS :
          /\ o \in DOMAIN ORDERS'
          /\ ItemsAfter(o) = Items(o)
          /\ ORDERS'[o].total = ORDERS[o].total ]_vars

\* C2, the part that holds: an order keeps its items and its total in every
\* step but a checkout that stores its new order under the same order id.
C2_OrderChangesOnlyByCollision ==
    [][ \A o \in DOMAIN ORDERS :
          \/ /\ o \in DOMAIN ORDERS'
             /\ ItemsAfter(o) = Items(o)
             /\ ORDERS'[o].total = ORDERS[o].total
          \/ /\ last'.op = "checkout"
             /\ ~IsError(last'.result)
             /\ last'.result.order.order_id = o ]_vars

\* C3: checkout on an existing session whose cart has no line returns an
\* error, leaves the order map and every order's items as they were and
\* leaves the session's cart empty.
C3_EmptyCartCheckoutRefused ==
    [][ ( /\ last'.op = "checkout"
          /\ last'.args.session_id \in DOMAIN ACTIVE_SESSIONS
          /\ Cart(last'.args.session_id) = <<>> )
        => /\ IsError(last'.result)
           /\ ORDERS' = ORDERS
           /\ lists' = lists
           /\ ACTIVE_SESSIONS'[last'.args.session_id].cart
                = ACTIVE_SESSIONS[last'.args.session_id].cart ]_vars

\* C3 witness: a checkout of an empty cart has been refused while an order
\* is stored
C3_Witness ==
    /\ last.op = "checkout"
    /\ last.args.session_id \in DOMAIN ACTIVE_SESSIONS
    /\ IsError(last.result)
    /\ Cart(last.args.session_id) = <<>>
    /\ DOMAIN ORDERS # {}

\* at most one line per item_id
UniqueLines(c) ==
    \A i, j \in 1..Len(c) : c[i].item_id = c[j].item_id => i = j

\* C4: every cart holds at most one line per item_id; a successful
\* add_to_cart of an item the cart holds adds the quantity to that line and
\* leaves its name, its price and every other line as they were; one of an
\* item the cart does not hold appends one line, made of the menu's name and
\* price and the quantity.
C4_OneLinePerItem ==
    /\ [](\A s \in DOMAIN ACTIVE_SESSIONS : UniqueLines(Cart(s)))
    /\ [][ ( /\ last'.op = "add_to_cart"
             /\ ~IsError(last'.result) )
           => LET s    == last'.args.session_id
                  id   == last'.args.item_id
                  q    == last'.args.quantity
                  pre  == Cart(s)
                  post == CartAfter(s)
                  at   == {i \in 1..Len(pre) : pre[i].item_id = id}
              IN  IF at # {}
                  THEN /\ Len(post) = Len(pre)
                       /\ \A i \in 1..Len(pre) :
                            post[i] = IF i \in at
                                      THEN [pre[i] EXCEPT !.quantity = pre[i].quantity + q]
                                      ELSE pre[i]
                  ELSE /\ Len(post) = Len(pre) + 1
                       /\ \A i \in 1..Len(pre) : post[i] = pre[i]
                       /\ post[Len(post)].item_id = id
                       /\ post[Len(post)].quantity = q
                       /\ \E m \in 1..Len(MENU_ITEMS) :
                            /\ MENU_ITEMS[m].id = id
                            /\ post[Len(post)].name = MENU_ITEMS[m].name
                            /\ post[Len(post)].price = MENU_ITEMS[m].price
         ]_vars

\* C4 witness: an add has merged into the second line of a two-line cart
C4_Witness ==
    /\ last.op = "add_to_cart"
    /\ ~IsError(last.result)
    /\ Len(last.result.cart) = 2
    /\ last.result.cart[2].item_id = last.args.item_id
    /\ last.result.cart[2].quantity = 2
    /\ last.args.quantity = 1

\* C5: the total a successful add_to_cart, remove_from_cart or get_cart
\* returns is the sum of price * quantity over the lines of the cart it
\* returns, that cart is the session's cart after the call, and the total of
\* an empty cart is 0.
C5_TotalIsSumOfLines ==
    ( /\ last.op \in {"add_to_cart", "remove_from_cart", "get_cart"}
      /\ ~IsError(last.result) )
    => /\ last.result.total = TotalOf(last.result.cart, Len(last.result.cart))
       /\ last.result.cart = Cart(last.args.session_id)
       /\ last.result.cart = <<>> => last.result.total = 0

\* C5 witness: a call has returned a cart of two lines with quantities 2 and 1
C5_Witness ==
    /\ last.op \in {"add_to_cart", "remove_from_cart", "get_cart"}
    /\ ~IsError(last.result)
    /\ Len(last.result.cart) = 2
    /\ last.result.cart[1].quantity = 2
    /\ last.result.cart[2].quantity = 1
    /\ last.result.total # 0

\* C6 (as claimed): add_to_cart with quantity <= 0 on an existing session
\* and a menu item returns an error and leaves the session's cart as it was.
C6_NonPositiveQuantityRejected ==
    [][ ( /\ last'.op = "add_to_cart"
          /\ last'.args.session_id \in DOMAIN ACTIVE_SESSIONS
          /\ last'.args.item_id \in MenuIds
          /\ last'.args.quantity <= 0 )
        => /\ IsError(last'.result)
           /\ CartAfter(last'.args.session_id) = Cart(last'.args.session_id)
      ]_vars

\* C7: add_to_cart on an existing session with an item_id that is not in
\* the menu returns an error and leaves every session, every order and
\* every list as they were.
C7_UnknownItemRejected ==
    [][ ( /\ last'.op = "add_to_cart"
          /\ last'.args.session_id \in DOMAIN ACTIVE_SESSIONS
          /\ last'.args.item_id \notin MenuIds )
        => /\ IsError(last'.result)
           /\ ACTIVE_SESSIONS' = ACTIVE_SESSIONS
           /\ ORDERS' = ORDERS
           /\ lists' = lists ]_vars

\* C7 witness: an unknown item has been refused on a session whose cart
\* holds a line, next to another session
C7_Witness ==
    /\ last.op = "add_to_cart"
    /\ last.args.session_id \in DOMAIN ACTIVE_SESSIONS
    /\ last.args.item_id \notin MenuIds
    /\ IsError(last.result)
    /\ Cart(last.args.session_id) # <<>>
    /\ Cardinality(DOMAIN ACTIVE_SESSIONS) = 2

\* C8: remove_from_cart is idempotent.  After a successful remove_from_cart
\* the cart holds no line of that item_id, and a remove_from_cart of an
\* item_id the cart does not hold returns no error, returns the cart and
\* leaves it as it was: a second call in a row changes nothing.
C8_RemoveIdempotent ==
    /\ []( ( /\ last.op = "remove_from_cart"
             /\ ~IsError(last.result) )
           => \A i \in 1..Len(Cart(last.args.session_id)) :
                 Cart(last.args.session_id)[i].item_id # last.args.item_id )
    /\ [][ ( /\ last'.op = "remove_from_cart"
             /\ last'.args.session_id \in DOMAIN ACTIVE_SESSIONS
             /\ \A i \in 1..Len(Cart(last'.args.session_id)) :
                  Cart(last'.args.session_id)[i].item_id # last'.args.item_id )
           => /\ ~IsError(last'.result)
              /\ CartAfter(last'.args.session_id) = Cart(last'.args.session_id)
              /\ last'.result.cart = Cart(last'.args.session_id)
         ]_vars

\* C8 witness: a remove_from_cart of a menu item has returned a cart with
\* one line of another item
C8_Witness ==
    /\ last.op = "remove_from_cart"
    /\ ~IsError(last.result)
    /\ Len(last.result.cart) = 1
    /\ last.result.cart[1].item_id # last.args.item_id
    /\ last.args.item_id \in MenuIds

\* C9: add_to_cart, remove_from_cart, get_cart and checkout with a
\* session_id that names no session return an error and leave every
\* session, every order and every list as they were.
C9_UnknownSessionRejected ==
    [][ ( /\ last'.op \in {"add_to_cart", "remove_from_cart", "get_cart", "checkout"}
          /\ last'.args.session_id \notin DOMAIN ACTIVE_SESSIONS )
        => /\ IsError(last'.result)
           /\ ACTIVE_SESSIONS' = ACTIVE_SESSIONS
           /\ ORDERS' = ORDERS
           /\ lists' = lists ]_vars

\* C9 witness: a get_cart with an unknown session_id has been refused while
\* a session with a line in its cart exists
C9_Witness ==
    /\ last.op = "get_cart"
    /\ last.args.session_id \notin DOMAIN ACTIVE_SESSIONS
    /\ IsError(last.result)
    /\ \E s \in DOMAIN ACTIVE_SESSIONS : Cart(s) # <<>>

\* C10: checkout is atomic.  A step that changes the order map or the items
\* of an order is a successful checkout that in the same step leaves its
\* session's cart empty and the order holding the lines the cart held; a
\* checkout step that empties a cart leaves an order holding those lines;
\* and no order shares its list with a cart, so that no later call on the
\* session reaches the order.
C10_CheckoutAtomic ==
    /\ []NoSharedList
    /\ [][ /\ ( \/ ORDERS' # ORDERS
                \/ \E o \in DOMAIN ORDERS \cap DOMAIN ORDERS' :
                     ItemsAfter(o) # Items(o) )
             => /\ last'.op = "checkout"
                /\ ~IsError(last'.result)
                /\ CartAfter(last'.args.session_id) = <<>>
                /\ ItemsAfter(last'.result.order.order_id)
                     = Cart(last'.args.session_id)
           /\ ( /\ last'.op = "checkout"
                /\ last'.args.session_id \in DOMAIN ACTIVE_SESSIONS
                /\ Cart(last'.args.session_id) # <<>>
                /\ CartAfter(last'.args.session_id) = <<>> )
             => \E o \in DOMAIN ORDERS' :
                  /\ ItemsAfter(o) = Cart(last'.args.session_id)
                  /\ ~IsError(last'.result)
                  /\ last'.result.order.order_id = o
         ]_vars

\* C10 witness: a checkout has succeeded on one session, its order is
\* stored and its cart is empty, while the other session holds a line
C10_Witness ==
    /\ last.op = "checkout"
    /\ ~IsError(last.result)
    /\ Cart(last.args.session_id) = <<>>
    /\ last.result.order.order_id \in DOMAIN ORDERS
    /\ Items(last.result.order.order_id) = last.result.order.items
    /\ \E s \in DOMAIN ACTIVE_SESSIONS :
          s # last.args.session_id /\ Cart(s) # <<>>

\* the quantity a cart holds of an item, over all its lines
RECURSIVE QtyOf(_, _)
QtyOf(c, id) ==
    IF c = <<>> THEN 0
    ELSE (IF c[1].item_id = id THEN c[1].quantity ELSE 0) + QtyOf(Tail(c), id)

\* the number of lines a cart holds of an item
LinesOf(c, id) == Cardinality({i \in 1..Len(c) : c[i].item_id = id})

\* C11: two add_to_cart calls on one session lose no update, in either
\* order.  Each call runs to its end before the other starts, so: an add
\* that follows an add on the same session works on the cart the first one
\* returned, and the cart then holds, of every item, what that cart held
\* plus what the second call adds, in one line; and from every cart reached,
\* two adds in a row give, of every item, what the cart held plus both
\* quantities, in one line.
C11_NoLostUpdate ==
    /\ [][ ( /\ last.op = "add_to_cart"
             /\ ~IsError(last.result)
             /\ last'.op = "add_to_cart"
             /\ ~IsError(last'.result)
             /\ last'.args.session_id = last.args.session_id )
           => LET first == last.result.cart
                  post  == CartAfter(last'.args.session_id)
              IN  /\ last'.result.cart = post
                  /\ LinesOf(post, last.args.item_id) = 1
                  /\ LinesOf(post, last'.args.item_id) = 1
                  /\ \A id \in MenuIds :
                       QtyOf(post, id) = QtyOf(first, id)
                          + (IF id = last'.args.item_id
                             THEN last'.args.quantity ELSE 0)
         ]_vars
    /\ [](\A s \in DOMAIN ACTIVE_SESSIONS :
          \A m1, m2 \in 1..Len(MENU_ITEMS) : \A q1, q2 \in Quantities :
            LET i1   == MENU_ITEMS[m1].id
                i2   == MENU_ITEMS[m2].id
                both == CartAdd(CartAdd(Cart(s), i1, MENU_ITEMS[m1], q1),
                                i2, MENU_ITEMS[m2], q2)
            IN  /\ LinesOf(both, i1) = 1
                /\ LinesOf(both, i2) = 1
                /\ \A id \in MenuIds :
                     QtyOf(both, id) = QtyOf(Cart(s), id)
                        + (IF id = i1 THEN q1 ELSE 0)
                        + (IF id = i2 THEN q2 ELSE 0))

\* C11 witness: a second add of quantity 1 of the same item has given one
\* line of quantity 2
C11_Witness ==
    /\ last.op = "add_to_cart"
    /\ ~IsError(last.result)
    /\ last.args.quantity = 1
    /\ Len(last.result.cart) = 1
    /\ last.result.cart[1].item_id = last.args.item_id
    /\ last.result.cart[1].quantity = 2

\* C12 (as claimed): every line of every cart and every item of every
\* order has a quantity of at least 1.
C12_QuantitiesPositive ==
    /\ \A s \in DOMAIN ACTIVE_SESSIONS :
         \A i \in 1..Len(Cart(s)) : Cart(s)[i].quantity >= 1
    /\ \A o \in DOMAIN ORDERS :
         \A i \in 1..Len(Items(o)) : Items(o)[i].quantity >= 1

\* C13 (as claimed): a successful checkout stores its order under an order
\* id that was no key of the order map, the map then holds one order more,
\* and every order it held is still there with its items and fields.
C13_OrderMapAppendOnly ==
    [][ ( /\ last'.op = "checkout"
          /\ ~IsError(last'.result) )
        => /\ last'.result.order.order_id \notin DOMAIN ORDERS
           /\ Cardinality(DOMAIN ORDERS') = Cardinality(DOMAIN ORDERS) + 1
           /\ \A o \in DOMAIN ORDERS :
                /\ o \in DOMAIN ORDERS'
                /\ ItemsAfter(o) = Items(o)
                /\ ORDERS'[o].total = ORDERS[o].total
                /\ ORDERS'[o].created_at = ORDERS[o].created_at
      ]_vars

\* a successful add_to_cart, remove_from_cart or checkout has just run
Mutated ==
    /\ last'.op \in {"add_to_cart", "remove_from_cart", "checkout"}
    /\ ~IsError(last'.result)

\* a checkout of an existing session has just been refused for its empty cart
RefusedCheckout ==
    /\ last'.op = "checkout"
    /\ last'.args.session_id \in DOMAIN ACTIVE_SESSIONS
    /\ IsError(last'.result)

\* no session's last_active decreases in the step
LastActiveGrows ==
    \A s \in DOMAIN ACTIVE_SESSIONS :
        /\ s \in DOMAIN ACTIVE_SESSIONS'
        /\ ACTIVE_SESSIONS'[s].last_active >= ACTIVE_SESSIONS[s].last_active

\* C14 (as claimed): last_active never decreases, and every successful
\* add_to_cart and remove_from_cart and every checkout of an existing
\* session, the refused one included, sets it to the current time.
C14_TouchedByEveryAttempt ==
    [][ /\ LastActiveGrows
        /\ (Mutated \/ RefusedCheckout)
             => ACTIVE_SESSIONS'[last'.args.session_id].last_active = now'
      ]_vars

\* C14 (amended): last_active never decreases; every successful
\* add_to_cart, remove_from_cart and checkout sets it to the current time,
\* and a checkout refused for an empty cart leaves it as it was.
C14_TouchedBySuccess ==
    [][ /\ LastActiveGrows
        /\ now' >= now
        /\ Mutated
             => ACTIVE_SESSIONS'[last'.args.session_id].last_active = now'
        /\ RefusedCheckout
             => ACTIVE_SESSIONS'[last'.args.session_id].last_active
                  = ACTIVE_SESSIONS[last'.args.session_id].last_active
      ]_vars

\* C14 witness: a checkout has succeeded after the clock advanced and has
\* moved the session's last_active past its created_at
C14_Witness ==
    /\ last.op = "checkout"
    /\ ~IsError(last.result)
    /\ ACTIVE_SESSIONS[last.args.session_id].created_at = 0
    /\ ACTIVE_SESSIONS[last.args.session_id].last_active = 1
    /\ now = 1

\* a tool that takes a session_id has just run, with or without an error
SessionOp ==
    last'.op \in {"add_to_cart", "remove_from_cart", "get_cart", "checkout"}

\* every session but the one the call names keeps its cart and timestamps
OtherSessionsKept ==
    \A s \in DOMAIN ACTIVE_SESSIONS \ {last'.args.session_id} :
        /\ s \in DOMAIN ACTIVE_SESSIONS'
        /\ CartAfter(s) = Cart(s)
        /\ ACTIVE_SESSIONS'[s].created_at = ACTIVE_SESSIONS[s].created_at
        /\ ACTIVE_SESSIONS'[s].last_active = ACTIVE_SESSIONS[s].last_active

\* the stored order o is the same after the step, items and fields
OrderKept(o) ==
    /\ o \in DOMAIN ORDERS'
    /\ OrderValue(lists', ORDERS'[o]) = OrderValue(lists, ORDERS[o])

\* C15 (as claimed): add_to_cart, remove_from_cart, get_cart and checkout,
\* failed or not, leave the cart and the timestamps of every other session
\* as they were, and leave every stored order as it was.
C15_OthersUntouched ==
    [][ SessionOp => /\ OtherSessionsKept
                     /\ \A o \in DOMAIN ORDERS : OrderKept(o) ]_vars

\* C15, the part that holds: the other sessions are left as they were, and
\* a stored order changes only when a checkout stores its new order under
\* the same order id.
C15_OthersUntouchedButCollision ==
    [][ SessionOp => /\ OtherSessionsKept
                     /\ \A o \in DOMAIN ORDERS :
                          \/ OrderKept(o)
                          \/ /\ last'.op = "checkout"
                             /\ ~IsError(last'.result)
                             /\ last'.result.order.order_id = o ]_vars

\* get_cart, get_order_status or list_orders has just run
ReadOp ==
    last'.op \in {"get_cart", "get_order_status", "list_orders"}

\* C16: get_cart, get_order_status and list_orders are pure reads.  A step
\* of one of them, whatever its argument and whether it answers or returns
\* an error, leaves the session store, every cart, every last_active, the
\* order map and every order's items as they were.
C16_ReadsArePure ==
    [][ ReadOp => /\ ACTIVE_SESSIONS' = ACTIVE_SESSIONS
                  /\ ORDERS' = ORDERS
                  /\ lists' = lists ]_vars

\* C16 witness: get_cart has answered for a session that holds a line and
\* whose last_active is behind the clock
C16_Witness ==
    /\ last.op = "get_cart"
    /\ ~IsError(last.result)
    /\ last.result.cart # <<>>
    /\ now = 1
    /\ ACTIVE_SESSIONS[last.args.session_id].last_active = 0

\* C17: in every reachable state every order of the order map has at least
\* one item, status "confirmed", payment status "approved", and a total that
\* is the sum of price * quantity over its own items.
C17_OrdersWellFormed ==
    \A o \in DOMAIN ORDERS :
        /\ Items(o) # <<>>
        /\ ORDERS[o].status = "confirmed"
        /\ ORDERS[o].payment_status = "approved"
        /\ ORDERS[o].total = TotalOf(Items(o), Len(Items(o)))

\* C17 witness: an order of two items is stored, with both amounts in its
\* total
C17_Witness ==
    \E o \in DOMAIN ORDERS :
        /\ Len(Items(o)) = 2
        /\ Items(o)[1].quantity = 1
        /\ Items(o)[2].quantity = 1
        /\ ORDERS[o].total = MENU_ITEMS[1].price + MENU_ITEMS[2].price

\* C18: create_cart succeeds and adds exactly one session, under an
\* identifier that was not in the session store, with an empty cart and
\* created_at equal to last_active, the time of the call; every session
\* that existed keeps its cart and timestamps, and the order map and every
\* order stay as they were.
C18_CreateAddsOneSession ==
    [][ last'.op = "create_cart"
        => LET id == last'.result.session_id
           IN  /\ ~IsError(last'.result)
               /\ last'.result.cart = <<>>
               /\ id \notin DOMAIN ACTIVE_SESSIONS
               /\ DOMAIN ACTIVE_SESSIONS' = DOMAIN ACTIVE_SESSIONS \cup {id}
               /\ CartAfter(id) = <<>>
               /\ ACTIVE_SESSIONS'[id].created_at = now'
               /\ ACTIVE_SESSIONS'[id].last_active
                    = ACTIVE_SESSIONS'[id].created_at
               /\ \A s \in DOMAIN ACTIVE_SESSIONS :
                    /\ CartAfter(s) = Cart(s)
                    /\ ACTIVE_SESSIONS'[s].created_at
                         = ACTIVE_SESSIONS[s].created_at
                    /\ ACTIVE_SESSIONS'[s].last_active
                         = ACTIVE_SESSIONS[s].last_active
               /\ DOMAIN ORDERS' = DOMAIN ORDERS
               /\ \A o \in DOMAIN ORDERS : OrderKept(o)
      ]_vars

\* C18 witness: a second session has been created after the clock advanced,
\* while the first session holds a line and an order is stored
C18_Witness ==
    /\ last.op = "create_cart"
    /\ ACTIVE_SESSIONS[last.result.session_id].created_at = 1
    /\ ORDERS # <<>>
    /\ \E s \in DOMAIN ACTIVE_SESSIONS :
          /\ s # last.result.session_id
          /\ Cart(s) # <<>>
          /\ ACTIVE_SESSIONS[s].last_active = 0

\* C19: no tool removes a session.  A session_id of the session store is
\* in the store after every step, so in every later state; and a session
\* whose checkout has just succeeded is used again: the add_to_cart of a
\* menu item that follows on it succeeds and gives a cart of that one line,
\* and no add_to_cart or checkout on a session of the store is answered
\* "Invalid session ID".
C19_SessionsStay ==
    [][ /\ DOMAIN ACTIVE_SESSIONS \subseteq DOMAIN ACTIVE_SESSIONS'
        /\ ( /\ last.op = "checkout"
             /\ ~IsError(last.result) )
           => last.args.session_id \in DOMAIN ACTIVE_SESSIONS
        /\ ( /\ last.op = "checkout"
             /\ ~IsError(last.result)
             /\ last'.op = "add_to_cart"
             /\ last'.args.session_id = last.args.session_id
             /\ last'.args.item_id \in MenuIds )
           => /\ ~IsError(last'.result)
              /\ Len(CartAfter(last'.args.session_id)) = 1
              /\ CartAfter(last'.args.session_id)[1].item_id
                   = last'.args.item_id
        /\ ( /\ last'.op \in {"add_to_cart", "checkout"}
             /\ last'.args.session_id \in DOMAIN ACTIVE_SESSIONS
             /\ IsError(last'.result) )
           => last'.result.error # "Invalid session ID"
      ]_vars

\* C19 witness: the one session of the store has checked out a second time,
\* two orders are stored
C19_Witness ==
    /\ last.op = "checkout"
    /\ ~IsError(last.result)
    /\ Cardinality(DOMAIN ACTIVE_SESSIONS) = 1
    /\ last.args.session_id \in DOMAIN ACTIVE_SESSIONS
    /\ Cardinality(DOMAIN ORDERS) = 2

====
